---- MODULE Spec2Model ----
(***************************************************************************)
(* A model of snowball: the weighted graph store (src/src/graph.rs), the   *)
(* force-directed layout stepper (src/src/lib.rs) and the trajectory       *)
(* recorder (src/src/lottie_graph.rs), built with the "lottie" feature.    *)
(*                                                                         *)
(* Hash maps are functions whose DOMAIN is the set of keys present.        *)
(* Option<T> is a sequence: <<>> is None and <<v>> is Some(v).             *)
(* A panic (assert!, unwrap on None) sets failure to "panic"; the state    *)
(* variables then hold what the program had written when it panicked, and  *)
(* no operation runs afterwards.                                           *)
(***************************************************************************)
EXTENDS Integers, Sequences, FiniteSets, TLC

(***************************************************************************)
(* Bounds of the model.                                                    *)
(***************************************************************************)
MaxKey == 2
MaxWeight == 1
MaxCalls == 4
MaxCount == 2
MaxRecorderCalls == 4
MaxLifeCalls == 6
MaxNodes == 4
MaxLayoutCalls == 5
MaxTicks == 16
MaxSpringNodes == 3
MaxSpringCalls == 5
MaxCoastTicks == 12
MaxKeyframes == 2
MaxWrites == 2

Keys == 1..MaxKey

(***************************************************************************)
(* Program constants.                                                      *)
(***************************************************************************)
DefaultWeight == 0

VARIABLES nodes, edges, open, closed, step, steps, failure, call, ret, explicit, calls,
          removed, reported

vars == <<nodes, edges, open, closed, step, steps, failure, call, ret, explicit, calls,
          removed, reported>>

(***************************************************************************)
(* hashbrown::HashMap operations.                                          *)
(***************************************************************************)
EmptyMap == <<>>

MapInsert(m, k, v) == [x \in (DOMAIN m) \cup {k} |-> IF x = k THEN v ELSE m[x]]

MapRemove(m, k) == [x \in (DOMAIN m) \ {k} |-> m[x]]

MapGet(m, k) == IF k \in DOMAIN m THEN <<m[k]>> ELSE <<>>

EntryOrDefault(m, k) == IF k \in DOMAIN m THEN m[k] ELSE EmptyMap

\* The orders in which a map's iterator may yield the keys of S.
IterOrders(S) ==
  {s \in [1..Cardinality(S) -> S] : \A i, j \in 1..Cardinality(S) : i # j => s[i] # s[j]}

(***************************************************************************)
(* f32 is modelled as a binary floating-point format that TLC's integers   *)
(* can hold: the integer n stands for the number n / Scale, a number has   *)
(* at most Precision significant bits (f32 has 24), and every operation    *)
(* yields its exact result rounded to the nearest such number, ties to the *)
(* even one, as IEEE 754 arithmetic does.  Below Scale's resolution the    *)
(* numbers are evenly spaced, as f32's subnormal numbers are.  NaN stands  *)
(* for the f32 NaN: it is what 0.0 / 0.0 yields, every operation with a    *)
(* NaN operand yields it, and every comparison with it is false.           *)
(***************************************************************************)
Precision == 15
FracBits == 16
Scale == 65536
NaN == -999999999

Abs(n) == IF n < 0 THEN -n ELSE n

Pow2(e) == 2 ^ e

\* The number of bits of n >= 0: of n < 2 ^ 8, of n < 2 ^ 16, and of any n.
BitLen8(n) ==
  IF n < 16
  THEN IF n < 4 THEN (IF n < 2 THEN n ELSE 2) ELSE (IF n < 8 THEN 3 ELSE 4)
  ELSE IF n < 64 THEN (IF n < 32 THEN 5 ELSE 6) ELSE (IF n < 128 THEN 7 ELSE 8)

BitLen16(n) == IF n < 256 THEN BitLen8(n) ELSE 8 + BitLen8(n \div 256)

BitLen(n) == IF n < 65536 THEN BitLen16(n) ELSE 16 + BitLen16(n \div 65536)

\* n / d for d > 0, rounded to the nearest integer.
RoundDiv(n, d) == IF n >= 0 THEN (2 * n + d) \div (2 * d) ELSE -((2 * (-n) + d) \div (2 * d))

\* q with its low e bits rounded away, to nearest and ties to even; sticky
\* tells that the exact number is a little more than q.
RoundBits(q, e, sticky) ==
  IF (q % Pow2(e)) > Pow2(e - 1)
     \/ ((q % Pow2(e)) = Pow2(e - 1) /\ (sticky \/ (q \div Pow2(e)) % 2 = 1))
  THEN ((q \div Pow2(e)) + 1) * Pow2(e)
  ELSE (q \div Pow2(e)) * Pow2(e)

\* The number q + r / den, with 0 <= r < den, rounded to a number of the
\* format.
RoundMixed(q, r, den) ==
  IF BitLen(q) <= Precision
  THEN IF 2 * r > den \/ (2 * r = den /\ q % 2 = 1) THEN q + 1 ELSE q
  ELSE RoundBits(q, BitLen(q) - Precision, r > 0)

\* num / den for num >= 0 and den > 0, rounded to a number of the format.
RoundQ(num, den) == RoundMixed(num \div den, num % den, den)

\* The integer n rounded to a number of the format.
Round(n) == IF n >= 0 THEN RoundQ(n, 1) ELSE -RoundQ(-n, 1)

\* a > 0 is Sig(a) * 2 ^ Exp(a), with a significand of Precision bits.
Exp(a) == BitLen(a) - Precision
Sig(a) == IF Exp(a) >= 0 THEN a \div Pow2(Exp(a)) ELSE a * Pow2(-Exp(a))

RECURSIVE ISqrtBetween(_, _, _)
ISqrtBetween(n, lo, hi) ==
  IF lo >= hi THEN lo
  ELSE LET mid == (lo + hi + 1) \div 2
           fits == mid * mid <= n
       IN ISqrtBetween(n, IF fits THEN mid ELSE lo, IF fits THEN hi ELSE mid - 1)

\* The square root of n >= 0, rounded to the nearest integer.
ISqrt(n) == LET r == ISqrtBetween(n, 0, 46340) IN IF n - r * r > r THEN r + 1 ELSE r

\* The product p * 2 ^ x of two significands, rounded.
MulParts(p, x) ==
  IF x >= 0 THEN RoundQ(p, 1) * Pow2(x)
  ELSE IF -x > 30 THEN 0
  ELSE RoundQ(p, Pow2(-x))

MulAbs(a, b) == MulParts(Sig(a) * Sig(b), Exp(a) + Exp(b) - FracBits)

\* The quotient (sa / sb) * 2 ^ y of two significands, rounded.
DivParts(sa, sb, y) ==
  IF y >= Precision THEN RoundQ(sa * Pow2(Precision), sb) * Pow2(y - Precision)
  ELSE IF y >= 0 THEN RoundQ(sa * Pow2(y), sb)
  ELSE IF -y <= Precision THEN RoundQ(sa, sb * Pow2(-y))
  ELSE 0

DivAbs(a, b) == DivParts(Sig(a), Sig(b), Exp(a) - Exp(b) + FracBits)

\* The square root of n / 4 ^ d for d >= 1, rounded to the nearest integer.
SqrtQuarter(n, d, r) ==
  IF (4 * r * r + 4 * r + 1) * Pow2(2 * d - 2) <= n THEN r + 1 ELSE r

\* The square root of n * 4 ^ j, rounded, for n of 29 or 30 bits.
SqrtParts(n, j) ==
  IF j >= 0 THEN ISqrt(n) * Pow2(j)
  ELSE IF -j > Precision THEN 0
  ELSE SqrtQuarter(n, -j, ISqrtBetween(n \div Pow2(-2 * j), 0, 46340))

\* sig * 2 ^ t is n * 4 ^ j for an n of 29 or 30 bits.
SqrtSplit(sig, t) ==
  SqrtParts(sig * Pow2(14 + ((t - 14) % 2)), (t - 14 - ((t - 14) % 2)) \div 2)

SqrtAbs(a) == SqrtSplit(Sig(a), Exp(a) + FracBits)

\* n + sign * (q + r / den) for 0 <= r < den, rounded.
AddMixed(n, sign, q, r, den) ==
  IF r = 0 THEN Round(n + sign * q)
  ELSE IF sign > 0
  THEN IF n + q >= 0 THEN RoundMixed(n + q, r, den) ELSE -RoundMixed(-(n + q) - 1, den - r, den)
  ELSE IF n - q >= 1 THEN RoundMixed(n - q - 1, den - r, den) ELSE -RoundMixed(q - n, r, den)

\* c + sign * p * 2 ^ x, rounded once.
MulAddParts(c, sign, p, x) ==
  IF x >= 0 THEN Round(c + sign * p * Pow2(x))
  ELSE IF -x > 30 THEN Round(c)
  ELSE AddMixed(c, sign, p \div Pow2(-x), p % Pow2(-x), Pow2(-x))

FAdd(a, b) == IF a = NaN \/ b = NaN THEN NaN ELSE Round(a + b)
FSub(a, b) == IF a = NaN \/ b = NaN THEN NaN ELSE Round(a - b)
FNeg(a) == IF a = NaN THEN NaN ELSE -a
FMul(a, b) ==
  IF a = NaN \/ b = NaN THEN NaN
  ELSE IF a = 0 \/ b = 0 THEN 0
  ELSE IF (a > 0) = (b > 0) THEN MulAbs(Abs(a), Abs(b)) ELSE -MulAbs(Abs(a), Abs(b))
\* a / b; the program divides by a length, which is 0 only for the zero
\* vector, so that its only division by 0 is 0.0 / 0.0.
FDiv(a, b) ==
  IF a = NaN \/ b = NaN \/ b = 0 THEN NaN
  ELSE IF a = 0 THEN 0
  ELSE IF (a > 0) = (b > 0) THEN DivAbs(Abs(a), Abs(b)) ELSE -DivAbs(Abs(a), Abs(b))
FSqrt(a) == IF a = NaN \/ a < 0 THEN NaN ELSE IF a = 0 THEN 0 ELSE SqrtAbs(a)
\* f32::mul_add: a * b + c with a single rounding.
FMulAdd(a, b, c) ==
  IF a = NaN \/ b = NaN \/ c = NaN THEN NaN
  ELSE IF a = 0 \/ b = 0 THEN c
  ELSE MulAddParts(c, IF (a > 0) = (b > 0) THEN 1 ELSE -1,
                   Sig(Abs(a)) * Sig(Abs(b)), Exp(Abs(a)) + Exp(Abs(b)) - FracBits)
FMax(a, b) == IF a = NaN THEN b ELSE IF b = NaN THEN a ELSE IF a >= b THEN a ELSE b
FLess(a, b) == a # NaN /\ b # NaN /\ a < b
FLessEq(a, b) == a # NaN /\ b # NaN /\ a <= b

\* The square root of a * a + b * b, taken of a and b without their low s
\* bits, which leaves the larger of them Precision bits: it is within one
\* unit in the last place of the exact root, as hypotf is.
HypotParts(a, b, s) ==
  RoundQ(ISqrt(RoundDiv(a, Pow2(s)) * RoundDiv(a, Pow2(s)) + RoundDiv(b, Pow2(s)) * RoundDiv(b, Pow2(s))), 1)
    * Pow2(s)

HypotAbs(a, b, bits) == HypotParts(a, b, IF bits > Precision THEN bits - Precision ELSE 0)

\* f32::hypot
FHypot(a, b) ==
  IF a = NaN \/ b = NaN THEN NaN
  ELSE HypotAbs(Abs(a), Abs(b), BitLen(IF Abs(a) >= Abs(b) THEN Abs(a) ELSE Abs(b)))

\* The f32 of a whole number.
F(n) == Round(n * Scale)

(***************************************************************************)
(* vec2d.rs: a Vec2d is a record of two f32 coordinates.                   *)
(***************************************************************************)
Vec2d(x, y) == [x |-> x, y |-> y]

Vec2d_add(a, b) == Vec2d(FAdd(a.x, b.x), FAdd(a.y, b.y))
Vec2d_sub(a, b) == Vec2d(FSub(a.x, b.x), FSub(a.y, b.y))
Vec2d_mul(a, rhs) == Vec2d(FMul(a.x, rhs), FMul(a.y, rhs))
Vec2d_length(a) == FHypot(a.x, a.y)
Vec2d_distance(a, b) == Vec2d_length(Vec2d_sub(a, b))
Vec2d_as_unit(a) == LET length == Vec2d_length(a) IN Vec2d(FDiv(a.x, length), FDiv(a.y, length))

\* random_unit: x is drawn from [-1, 1) and y is sqrt(1 - x * x).
Vec2d_random_unit(x) == Vec2d(x, FSqrt(FMulAdd(x, FNeg(x), F(1))))

(***************************************************************************)
(* graph.rs: Graph<N, W>.  N is the Node of lib.rs and W is f32, whose     *)
(* Default is 0.  The operators take the fields they read (N for nodes, E  *)
(* for edges) and yield the fields they write.                             *)
(***************************************************************************)
None == <<>>
Some(v) == <<v>>

\* HasKey::key for Node.
key(node) == node.id

\* add_node written with entry(key).or_insert(node): a present node is kept.
Graph_add_node_or_insert(N, node) ==
  IF key(node) \in DOMAIN N THEN N ELSE MapInsert(N, key(node), node)

Graph_add_node(N, node) == MapInsert(N, key(node), node)

Graph_get_node(N, k) == MapGet(N, k)

Graph_node_count(N) == Cardinality(DOMAIN N)

Graph_get_weight(E, from, to) ==
  IF from \in DOMAIN E /\ to \in DOMAIN E[from] THEN E[from][to] ELSE DefaultWeight

\* set_weight with the assert on `to` left out.
Graph_set_weight_one_assert(N, E, from, to, weight) ==
  IF ~(from \in DOMAIN N)
  THEN [panicked |-> TRUE, edges |-> E, ret |-> None]
  ELSE LET E1 == MapInsert(E, from, MapInsert(EntryOrDefault(E, from), to, weight))
           m2 == EntryOrDefault(E1, to)
           old == IF from \in DOMAIN m2 THEN m2[from] ELSE DefaultWeight
           E2 == MapInsert(E1, to, MapInsert(m2, from, weight))
       IN [panicked |-> FALSE, edges |-> E2, ret |-> Some(old)]

\* The two asserts come first; then the two inserts, the second of which
\* yields what edges[to][from] held when it ran.
Graph_set_weight(N, E, from, to, weight) ==
  IF ~(from \in DOMAIN N) \/ ~(to \in DOMAIN N)
  THEN [panicked |-> TRUE, edges |-> E, ret |-> None]
  ELSE LET E1 == MapInsert(E, from, MapInsert(EntryOrDefault(E, from), to, weight))
           m2 == EntryOrDefault(E1, to)
           old == IF from \in DOMAIN m2 THEN m2[from] ELSE DefaultWeight
           E2 == MapInsert(E1, to, MapInsert(m2, from, weight))
       IN [panicked |-> FALSE, edges |-> E2, ret |-> Some(old)]

\* edges(key) without the filter on the node's own key.
Graph_edges_unfiltered(N, E, k, order) ==
  LET siblings == MapGet(E, k)
      values == [i \in 1..Len(order) |-> N[order[i]]]
      weight(node) == IF siblings # None /\ key(node) \in DOMAIN siblings[1]
                      THEN siblings[1][key(node)] ELSE DefaultWeight
  IN [i \in 1..Len(values) |-> <<values[i], weight(values[i])>>]

\* The iterator of edges(key): nodes.values() in the order `order`, without
\* the nodes whose key is `key`, each paired with its weight.
Graph_edges(N, E, k, order) ==
  LET siblings == MapGet(E, k)
      values == [i \in 1..Len(order) |-> N[order[i]]]
      kept == SelectSeq(values, LAMBDA node : key(node) # k)
      weight(node) == IF siblings # None /\ key(node) \in DOMAIN siblings[1]
                      THEN siblings[1][key(node)] ELSE DefaultWeight
  IN [i \in 1..Len(kept) |-> <<kept[i], weight(kept[i])>>]

\* remove_node without the loop: the siblings keep their entry for the key.
remove_siblings_skipped(E, order, k) == [panicked |-> FALSE, edges |-> E]

\* The loop of remove_node over the removed node's siblings, in the order
\* the consumed map yields them: edges.get_mut(&sibling).unwrap().remove(key).
RECURSIVE remove_siblings(_, _, _)
remove_siblings(E, order, k) ==
  IF order = <<>> THEN [panicked |-> FALSE, edges |-> E]
  ELSE LET sibling == Head(order) IN
       IF sibling \notin DOMAIN E THEN [panicked |-> TRUE, edges |-> E]
       ELSE remove_siblings(MapInsert(E, sibling, MapRemove(E[sibling], k)), Tail(order), k)

\* The orders in which remove_node(k) may visit the siblings of k.
SiblingOrders(E, k) == IF k \in DOMAIN E THEN IterOrders(DOMAIN E[k]) ELSE {<<>>}

Graph_remove_node(N, E, k, order) ==
  LET node == MapGet(N, k) IN
  IF node = None
  THEN [panicked |-> FALSE, nodes |-> N, edges |-> E, ret |-> None]
  ELSE IF k \notin DOMAIN E
  THEN [panicked |-> FALSE, nodes |-> MapRemove(N, k), edges |-> E, ret |-> node]
  ELSE LET r == remove_siblings(MapRemove(E, k), order, k)
       IN [panicked |-> r.panicked, nodes |-> MapRemove(N, k), edges |-> r.edges,
           ret |-> IF r.panicked THEN None ELSE node]

(***************************************************************************)
(* The constants of lib.rs.                                                *)
(***************************************************************************)
SPRING_CONSTANT == FDiv(F(1), F(100))
TARGET_DENSITY == F(150)
MIN_SPRING_LENGTH == F(10)
DAMPING == FDiv(F(9), F(10))
SIZE == F(1000)
STARTING_JITTER == F(5)

(***************************************************************************)
(* lottie_graph.rs: the recorder.  A Node there is a record of start,      *)
(* colour and frames; a Frame is a record of pos and length.  The History  *)
(* operators take and yield a record H of open, closed and step.           *)
(***************************************************************************)
Frame(pos, length) == [pos |-> pos, length |-> length]

\* (-1.0..1.).contains(&d)
InBand(d) == FLessEq(F(-1), d) /\ FLess(d, F(1))

\* push_pos with the band closed at 1: (-1.0..=1.).contains(&d).
Node_push_pos_closed_band(node, pos) ==
  IF node.frames # <<>>
     /\ FLessEq(F(-1), FSub(node.frames[Len(node.frames)].pos.x, pos.x))
     /\ FLessEq(FSub(node.frames[Len(node.frames)].pos.x, pos.x), F(1))
     /\ FLessEq(F(-1), FSub(node.frames[Len(node.frames)].pos.y, pos.y))
     /\ FLessEq(FSub(node.frames[Len(node.frames)].pos.y, pos.y), F(1))
  THEN [node EXCEPT !.frames[Len(node.frames)].length = @ + 1]
  ELSE [node EXCEPT !.frames = Append(node.frames, Frame(pos, 1))]

\* push_pos that returns from the band's branch without counting the tick.
Node_push_pos_uncounted(node, pos) ==
  IF node.frames # <<>> /\ InBand(FSub(node.frames[Len(node.frames)].pos.x, pos.x))
                        /\ InBand(FSub(node.frames[Len(node.frames)].pos.y, pos.y))
  THEN node
  ELSE [node EXCEPT !.frames = Append(node.frames, Frame(pos, 1))]

\* push_pos that moves the last frame to the position it extends it with.
Node_push_pos_rebased(node, pos) ==
  IF node.frames # <<>> /\ InBand(FSub(node.frames[Len(node.frames)].pos.x, pos.x))
                        /\ InBand(FSub(node.frames[Len(node.frames)].pos.y, pos.y))
  THEN [node EXCEPT !.frames[Len(node.frames)] = Frame(pos, @.length + 1)]
  ELSE [node EXCEPT !.frames = Append(node.frames, Frame(pos, 1))]

\* push_pos without the comparison: every position starts a frame.
Node_push_pos_always(node, pos) == [node EXCEPT !.frames = Append(node.frames, Frame(pos, 1))]

Node_push_pos(node, pos) ==
  IF node.frames # <<>> /\ InBand(FSub(node.frames[Len(node.frames)].pos.x, pos.x))
                        /\ InBand(FSub(node.frames[Len(node.frames)].pos.y, pos.y))
  THEN [node EXCEPT !.frames[Len(node.frames)].length = @ + 1]
  ELSE [node EXCEPT !.frames = Append(node.frames, Frame(pos, 1))]

NODE_SIZE == F(20)

Keyframe(time, value) == [time |-> time, value |-> value]

\* The loop of render with `time += 1` for `time += frame.length`.
RECURSIVE render_frames_by_one(_, _, _)
render_frames_by_one(rest, time, frames) ==
  IF rest = <<>> THEN [frames |-> frames, time |-> time]
  ELSE render_frames_by_one(Tail(rest), time + 1, Append(frames, Keyframe(time, Head(rest).pos)))

\* The loop of Node::render: one Keyframe for each Frame, at the time the
\* run lengths before it add up to; it yields the keyframes and the time
\* after the last frame.
RECURSIVE render_frames(_, _, _)
render_frames(rest, time, frames) ==
  IF rest = <<>> THEN [frames |-> frames, time |-> time]
  ELSE render_frames(Tail(rest), time + Head(rest).length,
                     Append(frames, Keyframe(time, Head(rest).pos)))

\* The Layer that Node::render builds once its loop has left r.
Layer_of(node, r) ==
  [start |-> node.start,
   end |-> r.time,
   shapes |-> <<[shape |-> "Ellipse",
                 center |-> [animated |-> TRUE, k |-> r.frames],
                 size |-> [animated |-> FALSE, k |-> Vec2d(NODE_SIZE, NODE_SIZE)]],
                [shape |-> "Fill",
                 colour |-> [animated |-> FALSE, k |-> node.colour],
                 opacity |-> [animated |-> FALSE, k |-> 100]]>>]

Node_render(node) == Layer_of(node, render_frames(node.frames, node.start, <<>>))

\* Colour(r as f32 / 255., g as f32 / 255., b as f32 / 255.)
Colour(colour) == <<FDiv(F(colour[1]), F(255)), FDiv(F(colour[2]), F(255)), FDiv(F(colour[3]), F(255))>>

History_new == [open |-> EmptyMap, closed |-> <<>>, step |-> 0]

\* add_node that opens the record at tick 0 whatever the step is.
History_add_node_from_zero(H, id, colour) ==
  [H EXCEPT !.open = MapInsert(H.open, id,
                       [start |-> 0, colour |-> Colour(colour), frames |-> <<>>])]

History_add_node(H, id, colour) ==
  [H EXCEPT !.open = MapInsert(H.open, id,
                       [start |-> H.step, colour |-> Colour(colour), frames |-> <<>>])]

\* remove_node that drops the record it takes out of open.
History_remove_node_dropped(H, id) ==
  [panicked |-> FALSE, history |-> [H EXCEPT !.open = MapRemove(H.open, id)]]

\* if let Some(node) = open.remove(&id) { closed.push(node) }: nothing else.
History_remove_node(H, id) ==
  IF id \in DOMAIN H.open
  THEN [panicked |-> FALSE,
        history |-> [H EXCEPT !.open = MapRemove(H.open, id), !.closed = Append(H.closed, H.open[id])]]
  ELSE [panicked |-> FALSE, history |-> H]

\* set_position written with entry(id).or_insert: an unknown id gets a record.
History_set_position_or_insert(H, id, pos) ==
  LET node == IF id \in DOMAIN H.open THEN H.open[id]
              ELSE [start |-> H.step, colour |-> <<0, 0, 0>>, frames |-> <<>>]
  IN [panicked |-> FALSE, history |-> [H EXCEPT !.open = MapInsert(H.open, id, Node_push_pos(node, pos))]]

\* open.get_mut(&id).unwrap().push_pos(pos)
History_set_position(H, id, pos) ==
  IF id \in DOMAIN H.open
  THEN [panicked |-> FALSE, history |-> [H EXCEPT !.open[id] = Node_push_pos(H.open[id], pos)]]
  ELSE [panicked |-> TRUE, history |-> H]

History_next_step(H) == [H EXCEPT !.step = H.step + 1]

\* render that chains the open records before the closed ones.
History_render_open_first(H, order) ==
  [frame_rate |-> 60,
   width |-> SIZE \div Scale,
   height |-> SIZE \div Scale,
   length |-> H.step,
   layers |-> [i \in 1..Len(order) |-> Node_render(H.open[order[i]])]
                \o [i \in 1..Len(H.closed) |-> Node_render(H.closed[i])]]

\* render: the layers of the closed records, then those of the open ones in
\* the order `order` in which open.values() yields them.
History_render(H, order) ==
  [frame_rate |-> 60,
   width |-> SIZE \div Scale,
   height |-> SIZE \div Scale,
   length |-> H.step,
   layers |-> [i \in 1..Len(H.closed) |-> Node_render(H.closed[i])]
                \o [i \in 1..Len(order) |-> Node_render(H.open[order[i]])]]

(***************************************************************************)
(* lottie.rs: the JSON writer.  The String that write_json appends to is a *)
(* sequence of pieces of text; a '[' or ']' that a value's write_json      *)
(* writes first or last is a piece of its own, so that the String starts   *)
(* with '[' exactly when its first piece is "[".  A value is a record      *)
(* whose ty names its Rust type.                                           *)
(***************************************************************************)
U8(n) == [ty |-> "u8", n |-> n]

U32(n) == [ty |-> "u32", n |-> n]

Coords(x, y) == [ty |-> "Coords", x |-> x, y |-> y]

Segment(a, b) == [ty |-> "Segment", a |-> a, b |-> b]

\* lottie.rs's Colour(r, g, b), of three f32.
ColourValue(r, g, b) == [ty |-> "Colour", r |-> r, g |-> g, b |-> b]

\* write!(s, "[{},{}]", self.0, self.1)
Coords_write_json(v) == <<"[", ToString(v.x), ",", ToString(v.y), "]">>

Segment_write_json(v) ==
  <<"{\"c\":false,\"i\":[[0,0],[0,0]],\"o\":[[0,0],[0,0]],\"v\":[">>
    \o Coords_write_json(v.a) \o <<",">> \o Coords_write_json(v.b) \o <<"]}">>

\* {:.3} of an f32 c >= 0: its thousandths, to the nearest and ties to the
\* even one, written as the units, a point and three digits.
Fixed3(c) ==
  LET q == (c * 1000) \div Scale
      r == (c * 1000) % Scale
      n == IF 2 * r > Scale \/ (2 * r = Scale /\ q % 2 = 1) THEN q + 1 ELSE q
  IN ToString(n \div 1000) \o "." \o ToString((n \div 100) % 10)
       \o ToString((n \div 10) % 10) \o ToString(n % 10)

\* write!(s, "[{:.3},{:.3},{:.3}]", self.0, self.1, self.2)
Colour_write_json(v) == <<"[", Fixed3(v.r), ",", Fixed3(v.g), ",", Fixed3(v.b), "]">>

\* value.write_json of the trait WriteJson, for the types of the properties.
Value_write_json(v) ==
  CASE v.ty \in {"u8", "u32"} -> <<ToString(v.n)>>
    [] v.ty = "Coords" -> Coords_write_json(v)
    [] v.ty = "Segment" -> Segment_write_json(v)
    [] v.ty = "Colour" -> Colour_write_json(v)

\* Vec<T>::write_json, given what write_json writes for each element: the
\* elements, with a comma between them.
RECURSIVE Vec_write_json(_)
Vec_write_json(parts) ==
  IF parts = <<>> THEN <<>>
  ELSE IF Len(parts) = 1 THEN Head(parts)
  ELSE Head(parts) \o <<",">> \o Vec_write_json(Tail(parts))

\* value_buffer.starts_with('[')
\* Keyframe::write_json that wraps every value.
Keyframe_write_json_wrapped(kf) ==
  <<"{\"t\":", ToString(kf.time), ",\"i\":{\"x\":1,\"y\":1},\"o\":{\"x\":0,\"y\":0},\"s\":">>
    \o <<"[">> \o Value_write_json(kf.value) \o <<"]">>
    \o <<"}">>

\* Keyframe::write_json: the value is written to a buffer of its own, which
\* is put between '[' and ']' unless it starts with '['.
Keyframe_write_json(kf) ==
  <<"{\"t\":", ToString(kf.time), ",\"i\":{\"x\":1,\"y\":1},\"o\":{\"x\":0,\"y\":0},\"s\":">>
    \o (IF ~(Head(Value_write_json(kf.value)) = "[")
        THEN <<"[">> \o Value_write_json(kf.value) \o <<"]">>
        ELSE Value_write_json(kf.value))
    \o <<"}">>

Prop_Static(v) == [animated |-> FALSE, k |-> v]

Prop_Animated(v) == [animated |-> TRUE, k |-> v]

Prop_write_json(prop) ==
  IF ~prop.animated
  THEN <<"{\"a\":0,\"k\":">> \o Value_write_json(prop.k) \o <<"}">>
  ELSE <<"{\"a\":1,\"k\":[">>
         \o Vec_write_json([i \in 1..Len(prop.k) |-> Keyframe_write_json(prop.k[i])])
         \o <<"]}">>

\* The shapes.  Each writer's text is cut around the value of "ty", so
\* that the type tag is the second piece of what it writes.
Rectangle_write_json(r) ==
  <<"{\"ty\":\"", "rc", "\",\"p\":">> \o Prop_write_json(r.center)
    \o <<",\"s\":">> \o Prop_write_json(r.size)
    \o <<",\"r\":">> \o Prop_write_json(r.roundness) \o <<"}">>

Ellipse_write_json(e) ==
  <<"{\"ty\":\"", "el", "\",\"p\":">> \o Prop_write_json(e.center)
    \o <<",\"s\":">> \o Prop_write_json(e.size) \o <<"}">>

Line_write_json(l) ==
  <<"{\"ty\":\"", "fl", "\",\"ks\":">> \o Prop_write_json(l.segment) \o <<"}">>

Fill_write_json(f) ==
  <<"{\"ty\":\"", "fl", "\",\"o\":">> \o Prop_write_json(f.opacity)
    \o <<",\"c\":">> \o Prop_write_json(f.colour) \o <<"}">>

Stroke_write_json(st) ==
  <<"{\"ty\":\"", "st", "\",\"o\":">> \o Prop_write_json(st.opacity)
    \o <<",\"c\":">> \o Prop_write_json(st.colour)
    \o <<",\"w\":">> \o Prop_write_json(st.width) \o <<"}">>

\* Shape::write_json: the match on the kind of the shape.
Shape_write_json(shape) ==
  CASE shape.kind = "Rectangle" -> Rectangle_write_json(shape)
    [] shape.kind = "Ellipse" -> Ellipse_write_json(shape)
    [] shape.kind = "Line" -> Line_write_json(shape)
    [] shape.kind = "Fill" -> Fill_write_json(shape)
    [] shape.kind = "Stroke" -> Stroke_write_json(shape)

(***************************************************************************)
(* lib.rs: the System, which owns a Graph<Node, f32>, a History and a      *)
(* step counter.  Its operators take the fields N (graph.nodes), E         *)
(* (graph.edges) and H (history).                                          *)
(***************************************************************************)

\* The Node that add_node builds when random_unit draws x.
System_new_node(id, x) ==
  LET center == Vec2d(FDiv(SIZE, F(2)), FDiv(SIZE, F(2)))
      jitter == Vec2d_mul(Vec2d_random_unit(x), STARTING_JITTER)
  IN [id |-> id, pos |-> Vec2d_add(center, jitter), velocity |-> Vec2d(0, 0)]

\* add_node without history.add_node(id, colour).
System_add_node_unrecorded(N, H, id, colour, x) ==
  [nodes |-> Graph_add_node(N, System_new_node(id, x)),
   history |-> H,
   ret |-> id]

System_add_node(N, H, id, colour, x) ==
  [nodes |-> Graph_add_node(N, System_new_node(id, x)),
   history |-> History_add_node(H, id, colour),
   ret |-> id]

System_max_distance(N) == FMul(FSqrt(F(Graph_node_count(N))), TARGET_DENSITY)

\* The spring length without the floor: max_distance() - weight.
spring_length_unclamped(N, weight) == FSub(System_max_distance(N), weight)

\* (self.max_distance() - weight).max(MIN_SPRING_LENGTH)
spring_length(N, weight) == FMax(FSub(System_max_distance(N), weight), MIN_SPRING_LENGTH)

\* The pull of one sibling, were the direction taken from the sibling to the
\* node.
spring_pull_repelling(N, node, sibling, weight) ==
  LET force == FMul(SPRING_CONSTANT,
                    FSub(Vec2d_distance(node.pos, sibling.pos), spring_length(N, weight)))
      direction == Vec2d_as_unit(Vec2d_sub(node.pos, sibling.pos))
  IN Vec2d_mul(direction, force)

\* One turn of the loop of node_acceleration: the pull of one sibling.
spring_pull(N, node, sibling, weight) ==
  LET force == FMul(SPRING_CONSTANT,
                    FSub(Vec2d_distance(node.pos, sibling.pos), spring_length(N, weight)))
      direction == Vec2d_as_unit(Vec2d_sub(sibling.pos, node.pos))
  IN Vec2d_mul(direction, force)

RECURSIVE sum_pulls(_, _, _, _)
sum_pulls(N, node, es, accel) ==
  IF es = <<>> THEN accel
  ELSE sum_pulls(N, node, Tail(es), Vec2d_add(accel, spring_pull(N, node, Head(es)[1], Head(es)[2])))

System_node_acceleration(N, E, node, order) ==
  sum_pulls(N, node, Graph_edges(N, E, node.id, order), Vec2d(0, 0))

\* move_node without `node.velocity *= DAMPING`.
System_move_node_undamped(N, H, id, accel) ==
  IF id \notin DOMAIN N THEN [panicked |-> TRUE, nodes |-> N, history |-> H]
  ELSE LET velocity == Vec2d_add(N[id].velocity, accel)
           pos == Vec2d_add(N[id].pos, velocity)
           moved == [N EXCEPT ![id].velocity = velocity, ![id].pos = pos]
           r == History_set_position(H, id, pos)
       IN [panicked |-> r.panicked, nodes |-> moved, history |-> r.history]

\* move_node that adds the velocity to the position before it updates it.
System_move_node_old_velocity(N, H, id, accel) ==
  IF id \notin DOMAIN N THEN [panicked |-> TRUE, nodes |-> N, history |-> H]
  ELSE LET velocity == Vec2d_mul(Vec2d_add(N[id].velocity, accel), DAMPING)
           pos == Vec2d_add(N[id].pos, N[id].velocity)
           moved == [N EXCEPT ![id].velocity = velocity, ![id].pos = pos]
           r == History_set_position(H, id, pos)
       IN [panicked |-> r.panicked, nodes |-> moved, history |-> r.history]

\* move_node: the node's new velocity and position, then the recorder's
\* set_position; each of the two unwraps may panic.
System_move_node(N, H, id, accel) ==
  IF id \notin DOMAIN N THEN [panicked |-> TRUE, nodes |-> N, history |-> H]
  ELSE LET velocity == Vec2d_mul(Vec2d_add(N[id].velocity, accel), DAMPING)
           pos == Vec2d_add(N[id].pos, velocity)
           moved == [N EXCEPT ![id].velocity = velocity, ![id].pos = pos]
           r == History_set_position(H, id, pos)
       IN [panicked |-> r.panicked, nodes |-> moved, history |-> r.history]

\* The second loop of step: move_node for each (id, accel), in order; a
\* panic ends it.
RECURSIVE move_nodes(_, _, _)
move_rest(r, rest) == IF r.panicked THEN r ELSE move_nodes(r.nodes, r.history, rest)

move_nodes(N, H, node_accel) ==
  IF node_accel = <<>> THEN [panicked |-> FALSE, nodes |-> N, history |-> H]
  ELSE move_rest(System_move_node(N, H, Head(node_accel)[1], Head(node_accel)[2]), Tail(node_accel))

\* The first loop of step: (node.id, node_acceleration(node)) for each node
\* of graph.nodes(), visited in the order `visit`; `order` is the order in
\* which edges(node.id) yields the nodes.  Both loops iterate the one map
\* graph.nodes, so that the program's visit is its order.
node_accels(N, E, visit, order) ==
  [i \in 1..Len(visit) |-> <<N[visit[i]].id, System_node_acceleration(N, E, N[visit[i]], order)>>]

\* The end of a step that leaves the recorder's next_step out.
finish_step_same_tick(r, n) ==
  IF r.panicked THEN [panicked |-> TRUE, nodes |-> r.nodes, history |-> r.history, steps |-> n]
  ELSE [panicked |-> FALSE, nodes |-> r.nodes, history |-> r.history, steps |-> n + 1]

\* The end of step, once the second loop has left r: steps += 1 and the
\* recorder's next_step.
finish_step(r, n) ==
  IF r.panicked THEN [panicked |-> TRUE, nodes |-> r.nodes, history |-> r.history, steps |-> n]
  ELSE [panicked |-> FALSE, nodes |-> r.nodes, history |-> History_next_step(r.history),
        steps |-> n + 1]

\* A step that moves each node as soon as its acceleration is computed, so
\* that the nodes visited later see the new position.
RECURSIVE accel_and_move(_, _, _, _, _)
accel_and_move_rest(r, E, visit, order) ==
  IF r.panicked THEN r ELSE accel_and_move(r.nodes, E, r.history, visit, order)

accel_and_move(N, E, H, visit, order) ==
  IF visit = <<>> THEN [panicked |-> FALSE, nodes |-> N, history |-> H]
  ELSE accel_and_move_rest(
         System_move_node(N, H, Head(visit), System_node_acceleration(N, E, N[Head(visit)], order)),
         E, Tail(visit), order)

System_step_one_phase(N, E, H, n, visit, order) == finish_step(accel_and_move(N, E, H, visit, order), n)

\* step: the result holds the new nodes, history and steps.
System_step(N, E, H, n, visit, order) ==
  finish_step(move_nodes(N, H, node_accels(N, E, visit, order)), n)

\* many_steps: step, count times.
RECURSIVE System_many_steps(_, _, _, _, _, _)
steps_after(r, E, order, count) ==
  IF r.panicked THEN r ELSE System_many_steps(r.nodes, E, r.history, r.steps, order, count)

\* many_steps with the loop 0..=count: it steps once more.
RECURSIVE System_many_steps_inclusive(_, _, _, _, _, _)
System_many_steps_inclusive(N, E, H, n, order, count) ==
  LET r == System_step(N, E, H, n, order, order)
  IN IF r.panicked \/ count = 0 THEN r
     ELSE System_many_steps_inclusive(r.nodes, E, r.history, r.steps, order, count - 1)

System_many_steps(N, E, H, n, order, count) ==
  IF count = 0 THEN [panicked |-> FALSE, nodes |-> N, history |-> H, steps |-> n]
  ELSE steps_after(System_step(N, E, H, n, order, order), E, order, count - 1)

(***************************************************************************)
(* The state after construction: Graph::new, History::new, System::new.    *)
(* call and ret record the last operation and what it returned; explicit   *)
(* is the set of pairs {a, b} given to a set_weight that returned, less    *)
(* those with a key that add_node has since inserted as a new key; calls   *)
(* counts the calls the driver of the System has made.  removed and        *)
(* reported are the log of the recorder's own driver: removed[i] holds the *)
(* id of closed[i] and the step at which remove_node closed it, and        *)
(* reported[id] the positions given to set_position(id, _) since           *)
(* add_node(id) opened the record that is now open.                        *)
(***************************************************************************)
Call(op, args) == [op |-> op, args |-> args]

Init ==
  /\ nodes = EmptyMap
  /\ edges = EmptyMap
  /\ open = EmptyMap
  /\ closed = <<>>
  /\ step = 0
  /\ steps = 0
  /\ failure = "none"
  /\ call = Call("new", <<>>)
  /\ ret = None
  /\ explicit = {}
  /\ calls = 0
  /\ removed = <<>>
  /\ reported = EmptyMap

Running == failure = "none"

\* explicit after add_node of a node with key k.
AddedKey(N, k) == IF k \in DOMAIN N THEN explicit ELSE {p \in explicit : k \notin p}

(***************************************************************************)
(* The Graph driven on its own: add_node, set_weight and remove_node with  *)
(* any arguments.  get_weight and edges take &self and change nothing.     *)
(***************************************************************************)
Positions == {Vec2d(0, 0), Vec2d(F(1), 0)}

NodeValues == {[id |-> k, pos |-> p, velocity |-> Vec2d(0, 0)] : k \in Keys, p \in Positions}

Weights == 1..MaxWeight

GAddNode ==
  /\ Running
  /\ \E node \in NodeValues :
       /\ nodes' = Graph_add_node(nodes, node)
       /\ explicit' = AddedKey(nodes, key(node))
       /\ call' = Call("add_node", <<node>>)
  /\ ret' = None
  /\ UNCHANGED <<edges, open, closed, step, steps, failure, calls, removed, reported>>

GSetWeight ==
  /\ Running
  /\ \E from \in Keys, to \in Keys, weight \in Weights :
       LET r == Graph_set_weight(nodes, edges, from, to, weight) IN
       /\ edges' = r.edges
       /\ ret' = r.ret
       /\ failure' = IF r.panicked THEN "panic" ELSE "none"
       /\ explicit' = IF r.panicked THEN explicit ELSE explicit \cup {{from, to}}
       /\ call' = Call("set_weight", <<from, to, weight>>)
  /\ UNCHANGED <<nodes, open, closed, step, steps, calls, removed, reported>>

GRemoveNode ==
  /\ Running
  /\ \E k \in Keys : \E order \in SiblingOrders(edges, k) :
       LET r == Graph_remove_node(nodes, edges, k, order) IN
       /\ nodes' = r.nodes
       /\ edges' = r.edges
       /\ ret' = r.ret
       /\ failure' = IF r.panicked THEN "panic" ELSE "none"
       /\ call' = Call("remove_node", <<k>>)
  /\ UNCHANGED <<open, closed, step, steps, explicit, calls, removed, reported>>

GraphNext == GAddNode \/ GSetWeight \/ GRemoveNode

GraphSpec == Init /\ [][GraphNext]_vars

(***************************************************************************)
(* The program: a System driven through add_node, set_weight, step and     *)
(* many_steps, as main.rs drives it.                                       *)
(***************************************************************************)
history == [open |-> open, closed |-> closed, step |-> step]

\* The colours main.rs gives to the ids 0 to 4.
ColourOf(id) ==
  CASE id = 0 -> <<181, 137, 0>>
    [] id = 1 -> <<203, 75, 22>>
    [] id = 2 -> <<220, 50, 47>>
    [] id = 3 -> <<211, 54, 130>>
    [] OTHER -> <<108, 113, 196>>

\* The values random_unit draws for x.
RandomXs == {FDiv(F(-3), F(5)), FDiv(F(3), F(5))}

\* The weight of the first set_weight of main.rs.
SystemWeights == {F(50)}

\* One more call of at most max.
Called(max) == calls < max /\ calls' = calls + 1

\* The System after an add_node that left r.
Added(r) ==
  /\ nodes' = r.nodes
  /\ open' = r.history.open
  /\ closed' = r.history.closed
  /\ step' = r.history.step
  /\ ret' = Some(r.ret)

SAddNode ==
  /\ Running /\ Called(MaxCalls)
  /\ \E id \in Keys, x \in RandomXs :
       /\ Added(System_add_node(nodes, history, id, ColourOf(id), x))
       /\ explicit' = AddedKey(nodes, id)
       /\ call' = Call("add_node", <<id, ColourOf(id)>>)
  /\ UNCHANGED <<edges, steps, failure, removed, reported>>

\* set_weight(to, from, w) leaves the System as set_weight(from, to, w) does.
SSetWeight ==
  /\ Running /\ Called(MaxCalls)
  /\ \E from \in Keys, to \in Keys, weight \in SystemWeights :
       /\ from <= to
       /\ LET r == Graph_set_weight(nodes, edges, from, to, weight) IN
          /\ edges' = r.edges
          /\ failure' = IF r.panicked THEN "panic" ELSE "none"
          /\ explicit' = IF r.panicked THEN explicit ELSE explicit \cup {{from, to}}
       /\ call' = Call("set_weight", <<from, to, weight>>)
  /\ ret' = None
  /\ UNCHANGED <<nodes, open, closed, step, steps, removed, reported>>

\* The System after a step or many_steps that left r.
Stepped(r) ==
  /\ nodes' = r.nodes
  /\ open' = r.history.open
  /\ closed' = r.history.closed
  /\ step' = r.history.step
  /\ steps' = r.steps
  /\ failure' = IF r.panicked THEN "panic" ELSE "none"

SStep ==
  /\ Running /\ Called(MaxCalls)
  /\ \E order \in IterOrders(DOMAIN nodes) :
       Stepped(System_step(nodes, edges, history, steps, order, order))
  /\ call' = Call("step", <<>>)
  /\ ret' = None
  /\ UNCHANGED <<edges, explicit, removed, reported>>

SManySteps ==
  /\ Running /\ Called(MaxCalls)
  /\ \E count \in 0..MaxCount, order \in IterOrders(DOMAIN nodes) :
       /\ Stepped(System_many_steps(nodes, edges, history, steps, order, count))
       /\ call' = Call("many_steps", <<count>>)
  /\ ret' = None
  /\ UNCHANGED <<edges, explicit, removed, reported>>

Next == SAddNode \/ SSetWeight \/ SStep \/ SManySteps

Spec == Init /\ [][Next]_vars

(***************************************************************************)
(* The System driven as main.rs drives it: it adds the nodes 1, 2, ... one *)
(* after the other, each with the jitter that random_unit draws for it,    *)
(* and sets weights and steps in between.  The generator's draws differ    *)
(* from one another, so no node is put on top of another one.              *)
(***************************************************************************)
LayoutXs == {FDiv(F(-3), F(4)), FDiv(F(-1), F(4)), FDiv(F(1), F(4)), FDiv(F(3), F(4))}

LayAddNode ==
  /\ Running /\ Called(MaxLayoutCalls)
  /\ Graph_node_count(nodes) < MaxNodes
  /\ \E x \in LayoutXs :
       /\ \A k \in DOMAIN nodes : nodes[k].pos # System_new_node(Graph_node_count(nodes) + 1, x).pos
       /\ Added(System_add_node(nodes, history, Graph_node_count(nodes) + 1,
                                ColourOf(Graph_node_count(nodes) + 1), x))
  /\ call' = Call("add_node", <<Graph_node_count(nodes) + 1, ColourOf(Graph_node_count(nodes) + 1)>>)
  /\ explicit' = AddedKey(nodes, Graph_node_count(nodes) + 1)
  /\ UNCHANGED <<edges, steps, failure, removed, reported>>

LaySetWeight ==
  /\ Running /\ Called(MaxLayoutCalls)
  /\ \E from \in DOMAIN nodes, to \in DOMAIN nodes, weight \in SystemWeights :
       /\ from < to
       /\ edges' = Graph_set_weight(nodes, edges, from, to, weight).edges
       /\ explicit' = explicit \cup {{from, to}}
       /\ call' = Call("set_weight", <<from, to, weight>>)
  /\ ret' = None
  /\ UNCHANGED <<nodes, open, closed, step, steps, failure, removed, reported>>

LayStep ==
  /\ Running /\ Called(MaxLayoutCalls)
  /\ \E order \in IterOrders(DOMAIN nodes) :
       Stepped(System_step(nodes, edges, history, steps, order, order))
  /\ call' = Call("step", <<>>)
  /\ ret' = None
  /\ UNCHANGED <<edges, explicit, removed, reported>>

LayManySteps ==
  /\ Running /\ Called(MaxLayoutCalls)
  /\ \E count \in 0..MaxCount, order \in IterOrders(DOMAIN nodes) :
       /\ Stepped(System_many_steps(nodes, edges, history, steps, order, count))
       /\ call' = Call("many_steps", <<count>>)
  /\ ret' = None
  /\ UNCHANGED <<edges, explicit, removed, reported>>

LayoutNext == LayAddNode \/ LaySetWeight \/ LayStep \/ LayManySteps

LayoutSpec == Init /\ [][LayoutNext]_vars

(***************************************************************************)
(* The System driven with the weights that main.rs sets, one of them far   *)
(* above max_distance(): it adds the nodes 1, 2, ... with jitters that     *)
(* differ, sets weights between them and steps.                            *)
(***************************************************************************)
SpringWeights == {F(50), F(5000)}

SpringXs == {FDiv(F(-3), F(4)), FDiv(F(1), F(4)), FDiv(F(3), F(4))}

SprAddNode ==
  /\ Running /\ Called(MaxSpringCalls)
  /\ Graph_node_count(nodes) < MaxSpringNodes
  /\ \E x \in SpringXs :
       /\ \A k \in DOMAIN nodes : nodes[k].pos # System_new_node(Graph_node_count(nodes) + 1, x).pos
       /\ Added(System_add_node(nodes, history, Graph_node_count(nodes) + 1,
                                ColourOf(Graph_node_count(nodes) + 1), x))
  /\ call' = Call("add_node", <<Graph_node_count(nodes) + 1, ColourOf(Graph_node_count(nodes) + 1)>>)
  /\ explicit' = AddedKey(nodes, Graph_node_count(nodes) + 1)
  /\ UNCHANGED <<edges, steps, failure, removed, reported>>

SprSetWeight ==
  /\ Running /\ Called(MaxSpringCalls)
  /\ \E from \in DOMAIN nodes, to \in DOMAIN nodes, weight \in SpringWeights :
       /\ from < to
       /\ edges' = Graph_set_weight(nodes, edges, from, to, weight).edges
       /\ explicit' = explicit \cup {{from, to}}
       /\ call' = Call("set_weight", <<from, to, weight>>)
  /\ ret' = None
  /\ UNCHANGED <<nodes, open, closed, step, steps, failure, removed, reported>>

SprStep ==
  /\ Running /\ Called(MaxSpringCalls)
  /\ \E order \in IterOrders(DOMAIN nodes) :
       Stepped(System_step(nodes, edges, history, steps, order, order))
  /\ call' = Call("step", <<>>)
  /\ ret' = None
  /\ UNCHANGED <<edges, explicit, removed, reported>>

SpringNext == SprAddNode \/ SprSetWeight \/ SprStep

SpringSpec == Init /\ [][SpringNext]_vars

(***************************************************************************)
(* The stepping function applied to graphs of two nodes at rest, far apart *)
(* from each other, with the default weight between them and an open       *)
(* record for each.  add_node itself puts a node within STARTING_JITTER of *)
(* the centre, so that these are inputs of step, not states that main.rs   *)
(* passes through.                                                         *)
(***************************************************************************)
\* A node at rest at pos.
Node_at(id, pos) == [id |-> id, pos |-> pos, velocity |-> Vec2d(0, 0)]

TwoNodeInit ==
  /\ \E p \in {Vec2d(F(100), F(500)), Vec2d(F(200), F(500)), Vec2d(F(200), F(300))},
        q \in {Vec2d(F(800), F(500)), Vec2d(F(900), F(500)), Vec2d(F(800), F(700))} :
       nodes = Graph_add_node(Graph_add_node(EmptyMap, Node_at(1, p)), Node_at(2, q))
  /\ edges = EmptyMap
  /\ open = History_add_node(History_add_node(History_new, 1, ColourOf(1)), 2, ColourOf(2)).open
  /\ closed = <<>>
  /\ step = 0
  /\ steps = 0
  /\ failure = "none"
  /\ call = Call("new", <<>>)
  /\ ret = None
  /\ explicit = {}
  /\ calls = 0
  /\ removed = <<>>
  /\ reported = EmptyMap

TwoTick ==
  /\ Running
  /\ calls < MaxTicks /\ calls' = calls + 1
  /\ \E order \in IterOrders(DOMAIN nodes) :
       Stepped(System_step(nodes, edges, history, steps, order, order))
  /\ call' = Call("step", <<>>)
  /\ ret' = None
  /\ UNCHANGED <<edges, explicit, removed, reported>>

TwoNodeSpec == TwoNodeInit /\ [][TwoTick]_vars

(***************************************************************************)
(* The stepping function applied to a graph of one node in motion, with an *)
(* open record: edges() yields no sibling, so that node_acceleration       *)
(* returns the zero vector.  add_node builds its node at rest, so that     *)
(* these too are inputs of step and not states that main.rs passes         *)
(* through.  The velocities go down to one unit of the model's grid.       *)
(***************************************************************************)
CoastVelocities ==
  {Vec2d(x, y) : x \in {F(-10), 1, F(3)}, y \in {0, F(4), FNeg(FDiv(F(1), F(3)))}}

CoastInit ==
  /\ \E v \in CoastVelocities :
       nodes = Graph_add_node(EmptyMap, [Node_at(1, Vec2d(FDiv(SIZE, F(2)), FDiv(SIZE, F(2))))
                                          EXCEPT !.velocity = v])
  /\ edges = EmptyMap
  /\ open = History_add_node(History_new, 1, ColourOf(1)).open
  /\ closed = <<>>
  /\ step = 0
  /\ steps = 0
  /\ failure = "none"
  /\ call = Call("new", <<>>)
  /\ ret = None
  /\ explicit = {}
  /\ calls = 0
  /\ removed = <<>>
  /\ reported = EmptyMap

CoastTick ==
  /\ Running
  /\ calls < MaxCoastTicks /\ calls' = calls + 1
  /\ \E order \in IterOrders(DOMAIN nodes) :
       Stepped(System_step(nodes, edges, history, steps, order, order))
  /\ call' = Call("step", <<>>)
  /\ ret' = None
  /\ UNCHANGED <<edges, explicit, removed, reported>>

CoastSpec == CoastInit /\ [][CoastTick]_vars

(***************************************************************************)
(* The recorder driven on its own: add_node, remove_node, set_position,    *)
(* next_step and render with any arguments.                                *)
(***************************************************************************)
RecorderPositions ==
  {Vec2d(0, 0), Vec2d(FDiv(F(3), F(4)), 0), Vec2d(FDiv(F(3), F(2)), 0), Vec2d(0, F(1))}

\* The recorder after a call that left r.
Recorded(r) ==
  /\ open' = r.history.open
  /\ closed' = r.history.closed
  /\ step' = r.history.step
  /\ failure' = IF r.panicked THEN "panic" ELSE "none"

\* The log after a call that left it as rm and rp.
Logged(rm, rp) == removed' = rm /\ reported' = rp

HAddNode ==
  /\ Running /\ Called(MaxRecorderCalls)
  /\ \E id \in Keys :
       /\ Recorded([panicked |-> FALSE, history |-> History_add_node(history, id, ColourOf(id))])
       /\ reported' = MapInsert(reported, id, <<>>)
       /\ call' = Call("add_node", <<id, ColourOf(id)>>)
  /\ ret' = None
  /\ UNCHANGED <<nodes, edges, steps, explicit, removed>>

HRemoveNode ==
  /\ Running /\ Called(MaxRecorderCalls)
  /\ \E id \in Keys :
       /\ Recorded(History_remove_node(history, id))
       /\ Logged(IF id \in DOMAIN open THEN Append(removed, [id |-> id, step |-> step]) ELSE removed,
                 MapRemove(reported, id))
       /\ call' = Call("remove_node", <<id>>)
  /\ ret' = None
  /\ UNCHANGED <<nodes, edges, steps, explicit>>

HSetPosition ==
  /\ Running /\ Called(MaxRecorderCalls)
  /\ \E id \in Keys, pos \in RecorderPositions :
       /\ Recorded(History_set_position(history, id, pos))
       /\ Logged(removed, IF id \in DOMAIN open THEN MapInsert(reported, id, Append(reported[id], pos))
                          ELSE reported)
       /\ call' = Call("set_position", <<id, pos>>)
  /\ ret' = None
  /\ UNCHANGED <<nodes, edges, steps, explicit>>

HNextStep ==
  /\ Running /\ Called(MaxRecorderCalls)
  /\ Recorded([panicked |-> FALSE, history |-> History_next_step(history)])
  /\ call' = Call("next_step", <<>>)
  /\ ret' = None
  /\ UNCHANGED <<nodes, edges, steps, explicit, removed, reported>>

\* render takes &self: it returns the File and writes nothing.
HRender ==
  /\ Running /\ Called(MaxRecorderCalls)
  /\ \E order \in IterOrders(DOMAIN open) :
       ret' = Some(History_render(history, order))
  /\ call' = Call("render", <<>>)
  /\ UNCHANGED <<nodes, edges, open, closed, step, steps, failure, explicit, removed, reported>>

HistoryNext == HAddNode \/ HRemoveNode \/ HSetPosition \/ HNextStep \/ HRender

HistorySpec == Init /\ [][HistoryNext]_vars

(***************************************************************************)
(* The recorder driven tick by tick, as step drives it (lib.rs, lines 127  *)
(* to 132): in a tick every open record is given one position and then     *)
(* next_step is called; between ticks nodes that are not live are added     *)
(* and live nodes are removed.                                             *)
(***************************************************************************)
LifePositions == {Vec2d(0, 0), Vec2d(FDiv(F(3), F(2)), 0)}

LAddNode ==
  /\ Running /\ Called(MaxLifeCalls)
  /\ \E id \in Keys \ DOMAIN open :
       /\ Recorded([panicked |-> FALSE, history |-> History_add_node(history, id, ColourOf(id))])
       /\ reported' = MapInsert(reported, id, <<>>)
       /\ call' = Call("add_node", <<id, ColourOf(id)>>)
  /\ ret' = None
  /\ UNCHANGED <<nodes, edges, steps, explicit, removed>>

LRemoveNode ==
  /\ Running /\ Called(MaxLifeCalls)
  /\ \E id \in DOMAIN open :
       /\ Recorded(History_remove_node(history, id))
       /\ Logged(Append(removed, [id |-> id, step |-> step]), MapRemove(reported, id))
       /\ call' = Call("remove_node", <<id>>)
  /\ ret' = None
  /\ UNCHANGED <<nodes, edges, steps, explicit>>

\* The set_position calls of a tick, for the ids of `order` in that order.
RECURSIVE set_positions(_, _, _)
set_rest(r, order, pos) == IF r.panicked THEN r ELSE set_positions(r.history, order, pos)

set_positions(H, order, pos) ==
  IF order = <<>> THEN [panicked |-> FALSE, history |-> H]
  ELSE set_rest(History_set_position(H, Head(order), pos[Head(order)]), Tail(order), pos)

\* The next_step that ends a tick whose set_position calls have left r.
end_tick(r) == IF r.panicked THEN r ELSE [panicked |-> FALSE, history |-> History_next_step(r.history)]

LTick ==
  /\ Running /\ Called(MaxLifeCalls)
  /\ \E pos \in [DOMAIN open -> LifePositions] : \E order \in IterOrders(DOMAIN open) :
       /\ Recorded(end_tick(set_positions(history, order, pos)))
       /\ reported' = [id \in DOMAIN open |-> Append(reported[id], pos[id])]
       /\ call' = Call("tick", <<pos>>)
  /\ ret' = None
  /\ UNCHANGED <<nodes, edges, steps, explicit, removed>>

LifecycleNext == LAddNode \/ LRemoveNode \/ LTick

LifecycleSpec == Init /\ [][LifecycleNext]_vars

(***************************************************************************)
(* The JSON writer applied to properties: write_json of a Prop, static or  *)
(* animated with up to MaxKeyframes keyframes, for values of the types     *)
(* that the shapes' properties have, taken from the test entire_file.      *)
(***************************************************************************)
PropValues ==
  {U8(0), U8(100), U32(16),
   Coords(64, 64), Coords(448, 64),
   Segment(Coords(0, 0), Coords(512, 512)),
   ColourValue(0, 0, 0), ColourValue(F(1), FDiv(F(1), F(3)), 0)}

\* The Vec<Keyframe<T>> of up to MaxKeyframes keyframes, for each type T.
KeyframeLists ==
  UNION {{kfs \in [1..n -> {Keyframe(t, v) : t \in {0, 30}, v \in PropValues}] :
            \A i \in 1..n : kfs[i].value.ty = kfs[1].value.ty} : n \in 0..MaxKeyframes}

\* Prop::Static(value).write_json(&mut s)
WriteStatic ==
  /\ Called(MaxWrites)
  /\ \E v \in PropValues :
       /\ call' = Call("write_json", <<Prop_Static(v)>>)
       /\ ret' = Some(Prop_write_json(Prop_Static(v)))
  /\ UNCHANGED <<nodes, edges, open, closed, step, steps, failure, explicit, removed, reported>>

\* Prop::Animated(keyframes).write_json(&mut s)
WriteAnimated ==
  /\ Called(MaxWrites)
  /\ \E kfs \in KeyframeLists :
       /\ call' = Call("write_json", <<Prop_Animated(kfs)>>)
       /\ ret' = Some(Prop_write_json(Prop_Animated(kfs)))
  /\ UNCHANGED <<nodes, edges, open, closed, step, steps, failure, explicit, removed, reported>>

\* The shapes of the layers of entire_file: of each kind, one whose
\* properties are static and one whose first property has two keyframes.
Shape_of(kind, animated) ==
  LET prop(v, w) == IF animated THEN Prop_Animated(<<Keyframe(0, v), Keyframe(30, w)>>)
                    ELSE Prop_Static(v)
  IN CASE kind = "Rectangle" ->
            [kind |-> kind, center |-> prop(Coords(256, 256), Coords(64, 64)),
             size |-> Prop_Static(Coords(512, 512)), roundness |-> Prop_Static(U32(0))]
       [] kind = "Ellipse" ->
            [kind |-> kind, center |-> prop(Coords(64, 64), Coords(448, 64)),
             size |-> Prop_Static(Coords(64, 64))]
       [] kind = "Line" ->
            [kind |-> kind,
             segment |-> prop(Segment(Coords(0, 0), Coords(512, 512)),
                              Segment(Coords(512, 0), Coords(0, 512)))]
       [] kind = "Fill" ->
            [kind |-> kind, colour |-> prop(ColourValue(0, 0, 0), ColourValue(F(1), F(1), F(1))),
             opacity |-> Prop_Static(U8(100))]
       [] kind = "Stroke" ->
            [kind |-> kind, colour |-> prop(ColourValue(0, 0, 0), ColourValue(F(1), F(1), 0)),
             opacity |-> Prop_Static(U8(100)), width |-> Prop_Static(U32(16))]

\* shape.write_json(&mut s), for a Shape of any kind.
WriteShape ==
  /\ Called(MaxWrites)
  /\ \E kind \in {"Rectangle", "Ellipse", "Line", "Fill", "Stroke"}, animated \in BOOLEAN :
       /\ call' = Call("Shape::write_json", <<Shape_of(kind, animated)>>)
       /\ ret' = Some(Shape_write_json(Shape_of(kind, animated)))
  /\ UNCHANGED <<nodes, edges, open, closed, step, steps, failure, explicit, removed, reported>>

WriterSpec == Init /\ [][WriteStatic \/ WriteAnimated \/ WriteShape]_vars

(***************************************************************************)
(* Claims about the Graph, checked under GraphSpec.                        *)
(***************************************************************************)
\* The keys a query may name: those add_node may insert, and one it never does.
QueryKeys == 0..MaxKey

Present(N, k) == k \in DOMAIN N

Stored(E, a, b) == a \in DOMAIN E /\ b \in DOMAIN E[a]

\* The keys among the entries of an edges(k) iterator.
EntryKeys(es) == {key(es[i][1]) : i \in 1..Len(es)}

\* C1: weight symmetry: in every state reached by add_node, set_weight and
\* remove_node, get_weight(a, b) = get_weight(b, a) for all keys, and the
\* stored copies edges[a][b] and edges[b][a] are both absent or both present
\* with the same weight.
C1_WeightSymmetry ==
  \A a \in QueryKeys, b \in QueryKeys :
    /\ Graph_get_weight(edges, a, b) = Graph_get_weight(edges, b, a)
    /\ Stored(edges, a, b) <=> Stored(edges, b, a)
    /\ Stored(edges, a, b) => edges[a][b] = edges[b][a]

\* The same, in the states in which no operation has panicked.
SymmetricWhileRunning == Running => C1_WeightSymmetry

\* What a step of remove_node(k), or of add_node of a new key k, leaves of k.
CascadeStep ==
  /\ (call'.op = "remove_node" /\ Present(nodes, call'.args[1])) =>
       \A j \in DOMAIN nodes' :
         /\ Graph_get_weight(edges', j, call'.args[1]) = DefaultWeight
         /\ Graph_get_weight(edges', call'.args[1], j) = DefaultWeight
         /\ \A order \in IterOrders(DOMAIN nodes') :
              call'.args[1] \notin EntryKeys(Graph_edges(nodes', edges', j, order))
  /\ (call'.op = "add_node" /\ ~Present(nodes, key(call'.args[1]))) =>
       \A j \in DOMAIN nodes' :
         /\ Graph_get_weight(edges', j, key(call'.args[1])) = DefaultWeight
         /\ Graph_get_weight(edges', key(call'.args[1]), j) = DefaultWeight

\* C2: removal cascade: after remove_node(k) on a present key k, no remaining
\* node j has an entry for k in edges(j), and get_weight(j, k) and
\* get_weight(k, j) are the default; a later add_node of k finds them so.
C2_RemovalCascade == [][CascadeStep]_vars

\* The same, for the calls of remove_node that return.
CascadeWhenReturned == [][failure' = "none" => CascadeStep]_vars

\* C3: set_weight(a, b, w) on present keys, equal or not, returns what
\* get_weight(a, b) returned just before the call, and afterwards
\* get_weight(a, b) = get_weight(b, a) = w.
C3_SetWeightReturnsPrevious ==
  [][(call'.op = "set_weight" /\ Present(nodes, call'.args[1]) /\ Present(nodes, call'.args[2])) =>
       /\ ret' = Some(Graph_get_weight(edges, call'.args[1], call'.args[2]))
       /\ Graph_get_weight(edges', call'.args[1], call'.args[2]) = call'.args[3]
       /\ Graph_get_weight(edges', call'.args[2], call'.args[1]) = call'.args[3]
    ]_vars

\* C4: remove_node(k) on a present key completes without a panic and returns
\* the removed node, whatever preceded it; on an absent key it returns None
\* and leaves nodes and edges as they were.
C4_RemoveNodeCompletes ==
  [][call'.op = "remove_node" =>
       /\ failure' = "none"
       /\ IF Present(nodes, call'.args[1])
          THEN ret' = Some(nodes[call'.args[1]]) /\ ~Present(nodes', call'.args[1])
          ELSE ret' = None /\ nodes' = nodes /\ edges' = edges
    ]_vars

\* C5: get_weight returns the default weight for every pair of keys, present
\* or absent, equal or not, that no set_weight has named since both keys were
\* last inserted as new keys.
C5_GetWeightDefault ==
  \A a \in QueryKeys, b \in QueryKeys :
    {a, b} \notin explicit => Graph_get_weight(edges, a, b) = DefaultWeight

\* A pair of present nodes whose weight was set before one of them was
\* removed (which emptied the other's edge map) and added again.
C5_Witness ==
  \E a \in Keys, b \in Keys :
    /\ a # b /\ Present(nodes, a) /\ Present(nodes, b)
    /\ {a, b} \notin explicit
    /\ a \in DOMAIN edges /\ DOMAIN edges[a] = {}
    /\ call.op = "add_node" /\ key(call.args[1]) = b

\* C6: set_weight(a, b, w) panics when a or b is not a present node, and then
\* nodes and edges are as before the call; it completes only for two present
\* keys.
C6_SetWeightMissingNode ==
  [][call'.op = "set_weight" =>
       IF Present(nodes, call'.args[1]) /\ Present(nodes, call'.args[2])
       THEN failure' = "none"
       ELSE failure' = "panic" /\ nodes' = nodes /\ edges' = edges
    ]_vars

\* A set_weight naming an absent key has panicked on a graph that holds edges.
C6_Witness ==
  /\ call.op = "set_weight" /\ failure = "panic"
  /\ \E a \in DOMAIN nodes, b \in DOMAIN nodes : Stored(edges, a, b)
  /\ ~Present(nodes, call.args[1]) \/ ~Present(nodes, call.args[2])

\* C7: for a present key k, edges(k) yields one entry for every other present
\* node and none for k (node_count - 1 entries, also with a weight set on
\* (k, k)), and each entry's weight is get_weight(k, other).
C7_EdgesOfNode ==
  \A k \in DOMAIN nodes : \A order \in IterOrders(DOMAIN nodes) :
    LET es == Graph_edges(nodes, edges, k, order) IN
    /\ Len(es) = Graph_node_count(nodes) - 1
    /\ EntryKeys(es) = DOMAIN nodes \ {k}
    /\ \A i \in 1..Len(es) :
         /\ es[i][1] = nodes[key(es[i][1])]
         /\ es[i][2] = Graph_get_weight(edges, k, key(es[i][1]))

\* A present node with a weight set on itself and on the edge to another
\* present node.
C7_Witness ==
  \E k \in DOMAIN nodes : \E j \in DOMAIN nodes \ {k} :
    /\ Stored(edges, k, k) /\ Stored(edges, k, j)
    /\ failure = "none"

\* C8: add_node of a key already present replaces the node's value and
\* changes nothing else: node_count, the other nodes and every stored weight
\* are as before; add_node of a new key raises node_count by one and every
\* weight to the new node is the default.
C8_AddNodeFrame ==
  [][call'.op = "add_node" =>
       LET node == call'.args[1] IN
       /\ edges' = edges
       /\ DOMAIN nodes' = DOMAIN nodes \cup {key(node)}
       /\ nodes'[key(node)] = node
       /\ \A j \in DOMAIN nodes \ {key(node)} : nodes'[j] = nodes[j]
       /\ IF Present(nodes, key(node))
          THEN Graph_node_count(nodes') = Graph_node_count(nodes)
          ELSE /\ Graph_node_count(nodes') = Graph_node_count(nodes) + 1
               /\ \A j \in QueryKeys :
                    /\ Graph_get_weight(edges', key(node), j) = DefaultWeight
                    /\ Graph_get_weight(edges', j, key(node)) = DefaultWeight
    ]_vars

\* add_node has replaced a node that has a weight set to another node.
C8_Witness ==
  /\ call.op = "add_node"
  /\ \E j \in DOMAIN nodes : j # key(call.args[1]) /\ Stored(edges, key(call.args[1]), j)

(***************************************************************************)
(* Claims about the recorder.  C9 is checked under Spec, where the System  *)
(* drives the recorder, and C10 under HistorySpec.                         *)
(***************************************************************************)
RECURSIVE SumLengths(_)
SumLengths(frames) == IF frames = <<>> THEN 0 ELSE Head(frames).length + SumLengths(Tail(frames))

\* C9: for every open record, the run lengths of its frames add up to the
\* recorder's step less the record's start, in every state the System
\* reaches by add_node, set_weight, step and many_steps.
C9_RunLengthInvariant ==
  \A id \in DOMAIN open : SumLengths(open[id].frames) = step - open[id].start

\* A record opened after the first tick that has a frame, beside a record
\* with a frame that spans two ticks and a later frame.
C9_Witness ==
  \E a \in DOMAIN open, b \in DOMAIN open :
    /\ open[a].start > 0 /\ open[a].frames # <<>>
    /\ Len(open[b].frames) >= 2 /\ open[b].frames[1].length >= 2

\* C10: the recorder's remove_node(id) on an id with no open record fails
\* (a panic) instead of returning as if nothing were wrong.
C10_RemoveUnknownFails ==
  [][(call'.op = "remove_node" /\ call'.args[1] \notin DOMAIN open) => failure' = "panic"]_vars

\* C11: the recorder's set_position(id, pos) on an id that has no open
\* record, never added or already removed, panics and leaves open, closed
\* and step as they were: no record is created for the id.
C11_SetPositionUnknownFails ==
  [][(call'.op = "set_position" /\ call'.args[1] \notin DOMAIN open) =>
       failure' = "panic" /\ open' = open /\ closed' = closed /\ step' = step
    ]_vars

\* A set_position has panicked on the id of a record that was removed, while
\* another record is open.
C11_Witness ==
  /\ call.op = "set_position" /\ failure = "panic"
  /\ \E i \in 1..Len(removed) : removed[i].id = call.args[1]
  /\ open # EmptyMap

\* The ids of the records that remove_node has closed.
RemovedIds == {removed[i].id : i \in 1..Len(removed)}

\* remove_node(id) on an open id appends the record as it is to closed and
\* takes it out of open, and no step changes what closed already holds.
ClosedStep ==
  /\ (call'.op = "remove_node" /\ call'.args[1] \in DOMAIN open) =>
       /\ closed' = Append(closed, open[call'.args[1]])
       /\ call'.args[1] \notin DOMAIN open'
       /\ failure' = "none"
  /\ Len(closed') >= Len(closed)
  /\ SubSeq(closed', 1, Len(closed)) = closed

\* C12 as stated: remove_node(id) on an open id moves the record unchanged
\* to the end of closed, no later operation changes a closed record, and
\* every later set_position(id, _) is rejected.
C12_RemoveFinalises ==
  [][/\ ClosedStep
     /\ (call'.op = "set_position" /\ call'.args[1] \in RemovedIds) => failure' = "panic"
    ]_vars

\* C12, amended: remove_node(id) on an open id moves the record unchanged to
\* the end of closed, no later operation changes a closed record, and
\* set_position(id, _) is rejected for as long as no add_node(id) has opened
\* a new record for the id.
C12_RemoveFinalisesUntilAdded ==
  [][/\ ClosedStep
     /\ (call'.op = "set_position" /\ call'.args[1] \in RemovedIds /\ call'.args[1] \notin DOMAIN open) =>
          failure' = "panic" /\ open' = open
     /\ (call'.op = "set_position" /\ call'.args[1] \in RemovedIds /\ call'.args[1] \in DOMAIN open) =>
          failure' = "none" /\ open'[call'.args[1]].frames # <<>>
    ]_vars

\* A record with a frame was closed, and the next set_position for its id
\* has panicked.
C12_Witness ==
  /\ closed # <<>> /\ closed[Len(closed)].frames # <<>>
  /\ call.op = "set_position" /\ failure = "panic"
  /\ call.args[1] = removed[Len(removed)].id

\* The positions reported for the open record of id are all the same.
Static(id) == \A i \in 1..Len(reported[id]) : reported[id][i] = reported[id][1]

\* C13: a record that was given the same position k >= 1 times since it was
\* added has exactly one frame, at that position, of run length k.
C13_StaticCompression ==
  \A id \in DOMAIN reported :
    (reported[id] # <<>> /\ Static(id)) =>
      open[id].frames = <<Frame(reported[id][1], Len(reported[id]))>>

\* A record given the same position on two ticks or more.
C13_Witness ==
  \E id \in DOMAIN reported :
    /\ Len(reported[id]) >= 2 /\ Static(id)
    /\ step > open[id].start

\* The delta push_pos takes between a frame's position and a new one is in
\* the band on both axes.
Within(last, pos) == InBand(FSub(last.x, pos.x)) /\ InBand(FSub(last.y, pos.y))

\* C14 as stated: positions whose consecutive deltas (each against the one
\* reported just before it) are all in the band make a single frame.
C14_DriftCompression ==
  \A id \in DOMAIN reported :
    (reported[id] # <<>>
       /\ \A i \in 1..(Len(reported[id]) - 1) : Within(reported[id][i], reported[id][i + 1])) =>
      Len(open[id].frames) = 1

\* C14, amended: positions whose deltas from the first of them (the position
\* the frame records) are all in the band make a single frame, at the first
\* position, however many they are.
C14_DriftFromFramePosition ==
  \A id \in DOMAIN reported :
    (reported[id] # <<>>
       /\ \A i \in 2..Len(reported[id]) : Within(reported[id][1], reported[id][i])) =>
      open[id].frames = <<Frame(reported[id][1], Len(reported[id]))>>

\* A record given three positions, not all the same, that are within the
\* band of the first.
C14_Witness ==
  \E id \in DOMAIN reported :
    /\ Len(reported[id]) >= 3 /\ ~Static(id)
    /\ \A i \in 2..Len(reported[id]) : Within(reported[id][1], reported[id][i])

\* C15: a set_position whose position is 1 or more away from the last
\* frame's position on either axis, in either direction, appends the frame
\* (pos, 1) and leaves the last frame as it was.
C15_BoundaryStartsFrame ==
  [][(call'.op = "set_position" /\ call'.args[1] \in DOMAIN open
        /\ open[call'.args[1]].frames # <<>>) =>
       LET frames == open[call'.args[1]].frames
           last == frames[Len(frames)].pos
           pos == call'.args[2]
       IN (Abs(last.x - pos.x) >= F(1) \/ Abs(last.y - pos.y) >= F(1)) =>
            open'[call'.args[1]].frames = Append(frames, Frame(pos, 1))
    ]_vars

\* The keyframes of a rendered layer: those of the centre of its ellipse.
Keyframes(layer) == layer.shapes[1].center.k

\* The records the recorder holds, closed and open.
Records == {closed[i] : i \in 1..Len(closed)} \cup {open[id] : id \in DOMAIN open}

\* C17: render of a record yields one keyframe for each frame, the first at
\* the record's start and each next one later than its predecessor by the
\* predecessor's run length, which is at least 1; the layer starts at the
\* record's start and ends at the start plus the sum of the run lengths; a
\* record with no frames yields no keyframes and a layer that ends where it
\* starts.
C17_RenderKeyframes ==
  \A node \in Records :
    LET layer == Node_render(node)
        kf == Keyframes(layer)
    IN /\ Len(kf) = Len(node.frames)
       /\ node.frames # <<>> => kf[1].time = node.start
       /\ \A i \in 1..Len(kf) : kf[i].value = node.frames[i].pos /\ node.frames[i].length >= 1
       /\ \A i \in 1..(Len(kf) - 1) :
            kf[i + 1].time = kf[i].time + node.frames[i].length /\ kf[i + 1].time > kf[i].time
       /\ layer.start = node.start
       /\ layer.end = node.start + SumLengths(node.frames)
       /\ node.frames = <<>> => kf = <<>> /\ layer.end = layer.start

\* A record whose first frame has a run length of two or more and is
\* followed by another frame.
C17_Witness ==
  \E node \in Records :
    Len(node.frames) >= 2 /\ node.frames[1].length >= 2

\* The keyframe times of a layer start at s, increase strictly and stay
\* below e: the keyframes split the ticks from s to e - 1 among them.
Covers(layer, s, e) ==
  LET kf == Keyframes(layer) IN
  /\ e > s => kf # <<>>
  /\ kf # <<>> => kf[1].time = s
  /\ \A i \in 1..Len(kf) : s <= kf[i].time /\ kf[i].time < e
  /\ \A i \in 1..(Len(kf) - 1) : kf[i].time < kf[i + 1].time

\* What the steps of a recorder driven tick by tick do to a record.
LifecycleStep ==
  /\ call'.op = "add_node" =>
       open'[call'.args[1]].start = step /\ open'[call'.args[1]].frames = <<>>
  /\ \A id \in DOMAIN open \cap DOMAIN open' : open'[id].start = open[id].start
  /\ call'.op = "remove_node" =>
       LET layer == Node_render(closed'[Len(closed')])
           s == open[call'.args[1]].start
       IN /\ layer.start = s
          /\ layer.end = step
          /\ Covers(layer, s, step)
          /\ Len(reported[call'.args[1]]) = step - s
  /\ \A i \in 1..Len(closed) : Node_render(closed'[i]) = Node_render(closed[i])

\* C16: a record opened by add_node at tick s (its start is s), given one
\* position in each of n ticks and closed by remove_node at tick s + n,
\* renders as a layer that starts at s and ends at s + n, whose keyframe
\* times start at s, increase strictly and lie below s + n; the layer of a
\* closed record is the same after every later step.
C16_RecordLifecycle == [][LifecycleStep]_vars

\* A record opened after the first tick and closed two ticks later with two
\* frames, and a tick since.
C16_Witness ==
  \E i \in 1..Len(closed) :
    /\ closed[i].start >= 1
    /\ removed[i].step = closed[i].start + 2
    /\ Len(closed[i].frames) = 2
    /\ step > removed[i].step

(***************************************************************************)
(* Claims about the layout stepper.                                        *)
(***************************************************************************)
\* Every node of r, the result of a step, has the velocity and position that
\* move_node gives it from the acceleration that the nodes as they are
\* before the step exert on it.
MovedFromSnapshot(r, order) ==
  /\ ~r.panicked
  /\ DOMAIN r.nodes = DOMAIN nodes
  /\ \A id \in DOMAIN nodes :
       /\ r.nodes[id].velocity =
            Vec2d_mul(Vec2d_add(nodes[id].velocity,
                                System_node_acceleration(nodes, edges, nodes[id], order)), DAMPING)
       /\ r.nodes[id].pos = Vec2d_add(nodes[id].pos, r.nodes[id].velocity)

\* C20: in a step every node's acceleration is computed from the positions
\* the nodes have when the step starts, and no node is moved before that, so
\* that the step's result is the same in whatever order its loops visit the
\* nodes (for each order in which edges() yields a node's siblings).
C20_TwoPhaseTick ==
  Running =>
    \A order \in IterOrders(DOMAIN nodes) : \A visit \in IterOrders(DOMAIN nodes) :
      MovedFromSnapshot(System_step(nodes, edges, history, steps, visit, order), order)

\* Two nodes that a step has set in motion, which the next step finds at
\* positions that differ and with velocities that are not zero.
C20_Witness ==
  /\ Running /\ call.op \in {"step", "many_steps"}
  /\ \E a \in DOMAIN nodes, b \in DOMAIN nodes :
       /\ a # b /\ nodes[a].pos # nodes[b].pos
       /\ nodes[a].velocity.x \notin {0, NaN} /\ nodes[b].velocity.x \notin {0, NaN}

\* The nodes that many_steps(count) leaves when the map yields them in `order`.
NodesAfter(order, count) == System_many_steps(nodes, edges, history, steps, order, count).nodes

\* C18: the positions and velocities that many_steps leaves are the same in
\* whatever order the node map is iterated: two Systems in the same state,
\* given the same call, are in the same state after it.
C18_Determinism ==
  Running =>
    \A count \in 1..MaxCount : \A o1 \in IterOrders(DOMAIN nodes) : \A o2 \in IterOrders(DOMAIN nodes) :
      NodesAfter(o1, count) = NodesAfter(o2, count)

\* The distance between the two nodes of N, and the length their spring
\* settles at.
Distance(N) == Vec2d_distance(N[1].pos, N[2].pos)

TargetLength(N) == FMax(FSub(System_max_distance(N), DefaultWeight), MIN_SPRING_LENGTH)

\* The two nodes of N are not moving apart: their relative velocity has no
\* component along the line from node 1 to node 2.
Closing(N) ==
  FLessEq(FAdd(FMul(FSub(N[2].pos.x, N[1].pos.x), FSub(N[2].velocity.x, N[1].velocity.x)),
               FMul(FSub(N[2].pos.y, N[1].pos.y), FSub(N[2].velocity.y, N[1].velocity.y))),
          0)

WrittenOnce(N, E, N2, order) ==
  /\ DOMAIN N2 = DOMAIN N
  /\ \A id \in DOMAIN N :
       /\ N2[id].id = N[id].id
       /\ N2[id].velocity =
            Vec2d_mul(Vec2d_add(N[id].velocity, System_node_acceleration(N, E, N[id], order)), DAMPING)
       /\ N2[id].pos = Vec2d_add(N[id].pos, N2[id].velocity)

\* C21: a step gives every present node, once, the velocity (velocity +
\* acceleration) * DAMPING and the position moved by that new velocity, and
\* leaves the set of nodes, their ids and the edge weights as they were.
C21_WritePhase ==
  [][call'.op = "step" =>
       /\ failure' = "none"
       /\ edges' = edges
       /\ \E order \in IterOrders(DOMAIN nodes) : WrittenOnce(nodes, edges, nodes', order)
    ]_vars

\* A step has moved two nodes that have an edge weight set between them.
C21_Witness ==
  /\ call.op = "step" /\ edges # EmptyMap
  /\ \E a \in DOMAIN nodes, b \in DOMAIN nodes :
       /\ a # b
       /\ nodes[a].velocity.x \notin {0, NaN} /\ nodes[b].velocity.x \notin {0, NaN}

\* H2 is the recorder H after one set_position(id, N2[id].pos) for each id
\* of `order` and then one next_step.
OneTick(H, H2, N2, order) ==
  LET r == end_tick(set_positions(H, order, [id \in DOMAIN N2 |-> N2[id].pos]))
  IN ~r.panicked /\ H2 = r.history

\* C22: a step issues one set_position for each present node, with the
\* node's new position, and then one next_step: it leaves the recorder as
\* these calls do, and adds one to the run lengths of every present node's
\* record.  The recorder's step never decreases and equals the System's
\* steps after every operation.
C22_TickProtocol ==
  [][/\ step' >= step
     /\ step' = steps'
     /\ call'.op = "step" =>
          /\ step' = step + 1
          /\ \A id \in DOMAIN nodes :
               SumLengths(open'[id].frames) = SumLengths(open[id].frames) + 1
          /\ \E order \in IterOrders(DOMAIN nodes) :
               OneTick(history, [open |-> open', closed |-> closed', step |-> step'], nodes', order)
    ]_vars

\* A step, not the first, has recorded the positions of two nodes.
C22_Witness ==
  /\ call.op = "step" /\ step >= 2 /\ steps = step
  /\ Cardinality(DOMAIN nodes) = 2 /\ DOMAIN open = DOMAIN nodes

\* d, the last frame's coordinate less the new one, lies in [-1, 1).
InHalfOpenBand(d) == d # NaN /\ F(-1) <= d /\ d < F(1)

\* The frames of a record with the frames `frames` after set_position(pos).
FramesAfter(frames, pos) ==
  IF frames # <<>> /\ InHalfOpenBand(FSub(frames[Len(frames)].pos.x, pos.x))
                   /\ InHalfOpenBand(FSub(frames[Len(frames)].pos.y, pos.y))
  THEN [frames EXCEPT ![Len(frames)] = Frame(@.pos, @.length + 1)]
  ELSE Append(frames, Frame(pos, 1))

\* C23: set_position(id, pos) on an open record adds one to the run length
\* of the record's last frame if both coordinates of that frame's position
\* less pos lie in [-1, 1), and appends the frame (pos, 1) otherwise, as it
\* does for a record without frames; the record's run lengths add up to one
\* more than before, and its start and colour, the other records, closed and
\* step stay as they are.
C23_SetPositionEffect ==
  [][(call'.op = "set_position" /\ call'.args[1] \in DOMAIN open) =>
       /\ failure' = "none"
       /\ DOMAIN open' = DOMAIN open
       /\ open'[call'.args[1]] =
            [open[call'.args[1]] EXCEPT !.frames = FramesAfter(@, call'.args[2])]
       /\ open[call'.args[1]].frames = <<>> =>
            open'[call'.args[1]].frames = <<Frame(call'.args[2], 1)>>
       /\ SumLengths(open'[call'.args[1]].frames) = SumLengths(open[call'.args[1]].frames) + 1
       /\ \A other \in DOMAIN open \ {call'.args[1]} : open'[other] = open[other]
       /\ closed' = closed
       /\ step' = step
    ]_vars

\* A set_position has added to the run length of a record's second frame.
C23_Witness ==
  /\ call.op = "set_position" /\ failure = "none"
  /\ \E id \in DOMAIN open :
       /\ id = call.args[1]
       /\ Len(open[id].frames) = 2 /\ open[id].frames[2].length = 2

\* C24: render yields a File with one layer for each record: those of the
\* closed records first, in the order in which they were closed, then one
\* for each open record; it has Len(closed) + |open| layers, its length is
\* the recorder's step, and render leaves open, closed and step as they are.
C24_RenderLayers ==
  [][call'.op = "render" =>
       /\ Len(ret'[1].layers) = Len(closed) + Cardinality(DOMAIN open)
       /\ \A i \in 1..Len(closed) : ret'[1].layers[i] = Node_render(closed[i])
       /\ \E order \in IterOrders(DOMAIN open) :
            \A i \in 1..Len(order) : ret'[1].layers[Len(closed) + i] = Node_render(open[order[i]])
       /\ ret'[1].length = step
       /\ open' = open /\ closed' = closed /\ step' = step
    ]_vars

\* A render of a recorder that holds a closed record and an open one.
C24_Witness ==
  /\ call.op = "render"
  /\ closed # <<>> /\ open # EmptyMap
  /\ Len(ret[1].layers) = Len(closed) + Cardinality(DOMAIN open)

\* The System r after `count` single steps.
RECURSIVE StepTimes(_, _, _, _)
StepTimes(r, E, order, count) ==
  IF count = 0 THEN r
  ELSE StepTimes(System_step(r.nodes, E, r.history, r.steps, order, order), E, order, count - 1)

\* The System as a result of its operations: its nodes, recorder and steps.
SystemOf(N, H, n) == [panicked |-> FALSE, nodes |-> N, history |-> H, steps |-> n]

\* C25: many_steps(count) leaves the nodes, the recorder and steps as count
\* single steps, one after the other, leave them; steps grows by count, and
\* many_steps(0) changes nothing.
C25_ManyStepsIsSteps ==
  [][call'.op = "many_steps" =>
       /\ \E order \in IterOrders(DOMAIN nodes) :
            SystemOf(nodes', [open |-> open', closed |-> closed', step |-> step'], steps')
              = StepTimes(SystemOf(nodes, history, steps), edges, order, call'.args[1])
       /\ steps' = steps + call'.args[1]
       /\ failure' = "none"
       /\ call'.args[1] = 0 =>
            /\ nodes' = nodes /\ edges' = edges
            /\ open' = open /\ closed' = closed /\ step' = step
    ]_vars

\* many_steps(2) has moved two nodes by two ticks.
C25_Witness ==
  /\ call = Call("many_steps", <<2>>) /\ steps >= 2
  /\ \E a \in DOMAIN nodes, b \in DOMAIN nodes :
       /\ a # b
       /\ nodes[a].velocity.x \notin {0, NaN} /\ nodes[b].velocity.x \notin {0, NaN}
       /\ Len(open[a].frames) >= 1

\* The weights that a tick uses: those of the entries that edges(a) yields
\* for the nodes a.
UsedWeights ==
  LET order == CHOOSE o \in IterOrders(DOMAIN nodes) : TRUE
  IN UNION {{Graph_edges(nodes, edges, a, order)[i][2] :
               i \in 1..Len(Graph_edges(nodes, edges, a, order))} : a \in DOMAIN nodes}

\* max(maxDistance - weight, minSpringLength) for a graph of count nodes.
TargetLengthFor(count, weight) ==
  IF FSub(FMul(FSqrt(F(count)), TARGET_DENSITY), weight) >= MIN_SPRING_LENGTH
  THEN FSub(FMul(FSqrt(F(count)), TARGET_DENSITY), weight)
  ELSE MIN_SPRING_LENGTH

\* C26: for every weight that a tick uses, the spring length is
\* max(sqrt(node_count) * TARGET_DENSITY - weight, MIN_SPRING_LENGTH); it is
\* never below MIN_SPRING_LENGTH, whatever the weight, and a larger weight
\* never has a longer spring.
C26_SpringTargetLength ==
  \A w \in UsedWeights :
    /\ spring_length(nodes, w) = TargetLengthFor(Cardinality(DOMAIN nodes), w)
    /\ FLessEq(MIN_SPRING_LENGTH, spring_length(nodes, w))
    /\ \A v \in UsedWeights : v <= w => FLessEq(spring_length(nodes, w), spring_length(nodes, v))

\* A step of three nodes, two of them with a weight above max_distance()
\* between them and the default weight to the third.
C26_Witness ==
  /\ call.op = "step" /\ Cardinality(DOMAIN nodes) = 3
  /\ {DefaultWeight, F(5000)} \subseteq UsedWeights
  /\ spring_length(nodes, F(5000)) = MIN_SPRING_LENGTH
  /\ FLess(MIN_SPRING_LENGTH, spring_length(nodes, DefaultWeight))

\* The acceleration that a tick computes for the node id of N is zero.
ZeroAcceleration(N, E, id) ==
  \A order \in IterOrders(DOMAIN N) : System_node_acceleration(N, E, N[id], order) = Vec2d(0, 0)

\* a is b to within the rounding of three operations: two units of the
\* grid, or a part in 2 ^ (Precision - 3) of b.
Near(a, b) == a # NaN /\ b # NaN /\ Abs(a - b) <= Abs(b) \div Pow2(Precision - 3) + 2

\* v2 is v scaled by DAMPING: its length is DAMPING times the length of v,
\* as nearly as the arithmetic has it, and is not larger than the length of v.
Damped(v, v2) ==
  /\ v2 = Vec2d_mul(v, DAMPING)
  /\ Near(Vec2d_length(v2), FMul(DAMPING, Vec2d_length(v)))
  /\ FLessEq(Vec2d_length(v2), Vec2d_length(v))

\* C27: a tick that computes the zero acceleration for a node leaves the
\* node with its velocity scaled by DAMPING, whose magnitude is DAMPING times
\* the magnitude before the tick (to within the rounding of the arithmetic)
\* and not larger than it.
C27_EnergyDissipation ==
  [][\A id \in DOMAIN nodes :
       ZeroAcceleration(nodes, edges, id) => Damped(nodes[id].velocity, nodes'[id].velocity)]_vars

\* Three ticks have slowed down a node that no sibling pulls.
C27_Witness ==
  /\ call.op = "step" /\ steps >= 3
  /\ \E id \in DOMAIN nodes :
       /\ ZeroAcceleration(nodes, edges, id)
       /\ FLess(0, Vec2d_length(nodes[id].velocity))
       /\ FLess(Vec2d_length(nodes[id].velocity), F(5))

\* The records that a recorder with the fields O (open) and C (closed) holds.
RecordsIn(O, C) == {C[i] : i \in 1..Len(C)} \cup {O[id] : id \in DOMAIN O}

\* The record r2 holds the trajectory of the record r: it has r's start and
\* colour and r's frames, the last of them possibly with a longer run, and
\* possibly more frames after them.
Holds(r2, r) ==
  /\ r2.start = r.start /\ r2.colour = r.colour
  /\ Len(r2.frames) >= Len(r.frames)
  /\ \A i \in 1..Len(r.frames) :
       /\ r2.frames[i].pos = r.frames[i].pos
       /\ IF i < Len(r.frames) THEN r2.frames[i].length = r.frames[i].length
          ELSE r2.frames[i].length >= r.frames[i].length

\* The recorder never holds fewer records, open and closed, than before.
RecordCountNeverDecreases ==
  [][Len(closed') + Cardinality(DOMAIN open') >= Len(closed) + Cardinality(DOMAIN open)]_vars

\* C28: no operation of the recorder, add_node for an id with an open record
\* included, leaves it with fewer records than before, and a record that
\* has received positions is still among the records, which render emits,
\* after every operation.
C28_NoTrajectoryDiscarded ==
  [][/\ Len(closed') + Cardinality(DOMAIN open') >= Len(closed) + Cardinality(DOMAIN open)
     /\ \A r \in RecordsIn(open, closed) :
          r.frames # <<>> => \E r2 \in RecordsIn(open', closed') : Holds(r2, r)
    ]_vars

\* C29: after every operation of the System the keys of the graph's nodes
\* are the ids with an open record, and no step or many_steps has panicked
\* on a set_position for an id without a record.
C29_DriverRecorderInSync ==
  /\ DOMAIN nodes = DOMAIN open
  /\ call.op \in {"step", "many_steps"} => failure = "none"

\* A step has moved two nodes whose records were opened at different ticks.
C29_Witness ==
  /\ call.op = "step" /\ failure = "none" /\ steps >= 2
  /\ \E a \in DOMAIN nodes, b \in DOMAIN nodes :
       /\ open[a].start # open[b].start
       /\ open[a].frames # <<>> /\ open[b].frames # <<>>

(***************************************************************************)
(* Claims about the JSON writer, checked under WriterSpec.                 *)
(***************************************************************************)
\* The types whose values are written as a JSON array.
ArrayTypes == {"Coords", "Colour"}

\* The text of a keyframe up to its value.
KeyframeHead(kf) ==
  <<"{\"t\":", ToString(kf.time), ",\"i\":{\"x\":1,\"y\":1},\"o\":{\"x\":0,\"y\":0},\"s\":">>

\* The text of a keyframe whose value is written as it is if it is an
\* array and as the one element of an array if it is not.
ExpectedKeyframe(kf) ==
  KeyframeHead(kf)
    \o (IF kf.value.ty \in ArrayTypes THEN Value_write_json(kf.value)
        ELSE <<"[">> \o Value_write_json(kf.value) \o <<"]">>)
    \o <<"}">>

\* C30: write_json of an animated property writes each keyframe's value as
\* it is if the value is written as an array (never as an array of that
\* array) and as an array of that one value if it is not; write_json of a
\* static property writes the value as it is.
C30_KeyframeValueWrapping ==
  call.op = "write_json" =>
    IF call.args[1].animated
    THEN ret[1] = <<"{\"a\":1,\"k\":[">>
                    \o Vec_write_json([i \in 1..Len(call.args[1].k) |-> ExpectedKeyframe(call.args[1].k[i])])
                    \o <<"]}">>
    ELSE ret[1] = <<"{\"a\":0,\"k\":">> \o Value_write_json(call.args[1].k) \o <<"}">>

\* An animated property with two keyframes whose values are coordinates
\* has been written, each value as the array it is.
C30_Witness ==
  /\ call.op = "write_json" /\ calls = 2
  /\ call.args[1].animated /\ Len(call.args[1].k) = 2
  /\ call.args[1].k[1].value.ty = "Coords"
  /\ ret[1] = <<"{\"a\":1,\"k\":[">>
                 \o KeyframeHead(call.args[1].k[1]) \o Coords_write_json(call.args[1].k[1].value) \o <<"}">>
                 \o <<",">>
                 \o KeyframeHead(call.args[1].k[2]) \o Coords_write_json(call.args[1].k[2].value) \o <<"}">>
                 \o <<"]}">>

\* The type tag that entire_file expects of each kind of shape.
ExpectedTag(kind) ==
  CASE kind = "Rectangle" -> "rc"
    [] kind = "Ellipse" -> "el"
    [] kind = "Line" -> "sh"
    [] kind = "Fill" -> "fl"
    [] kind = "Stroke" -> "st"

\* The value of "ty" in what a shape's write_json wrote.
TypeTag(buffer) == buffer[2]

\* C31: write_json of a shape writes the type tag that entire_file expects
\* of its kind ("rc", "el", "sh", "fl", "st"), and the shapes of two
\* different kinds are written with different tags.
C31_ShapeTypeTags ==
  call.op = "Shape::write_json" =>
    /\ TypeTag(ret[1]) = ExpectedTag(call.args[1].kind)
    /\ \A kind \in {"Rectangle", "Ellipse", "Line", "Fill", "Stroke"}, animated \in BOOLEAN :
         kind # call.args[1].kind =>
           TypeTag(Shape_write_json(Shape_of(kind, animated))) # TypeTag(ret[1])

\* Every key of the outer edge map E, and every key of each of its inner
\* maps, is the key of a node of N.
NoDangling(N, E) ==
  \A a \in DOMAIN E : Present(N, a) /\ \A b \in DOMAIN E[a] : Present(N, b)

\* C32: after every add_node, set_weight and remove_node, every key of the
\* outer edge map and every key of each inner edge map is the key of a
\* present node, and remove_node has looked up the edge map of a sibling
\* only for keys that have one (the unwrap of the lookup has not panicked).
C32_NoDanglingEdges ==
  [][/\ NoDangling(nodes', edges')
     /\ call'.op = "remove_node" => failure' # "panic"
    ]_vars

\* The keys of the edge maps are keys of present nodes in the states in
\* which no operation has panicked.
NoDanglingWhileRunning == Running => NoDangling(nodes, edges)

====
